---- MODULE Spec2Model ----
(***************************************************************************)
(* Model of the git-lfs pre-push hook, commands/command_pre_push.go:       *)
(* prePushCommand (the hook controller) and decodeRefs (the ref-update     *)
(* decoder).                                                               *)
(*                                                                         *)
(* Strings the code splits, trims or compares character by character (the  *)
(* stdin lines, the revisions) are sequences of one-character strings.     *)
(* Names that the code only compares for equality or uses as map keys      *)
(* (object names, lock paths, owner names, e-mails, the remote) are TLA+   *)
(* strings.                                                                *)
(***************************************************************************)
EXTENDS Integers, Sequences, FiniteSets, TLC

VARIABLES
    args,           \* args []string of prePushCommand
    stdin,          \* the lines os.Stdin holds, in order (raw, untrimmed)
    pos,            \* number of lines scanner.Scan() has returned so far
    pc,             \* position of prePushCommand
    exitCode,       \* process exit status once pc = "Exited", -1 before
    exitCause,      \* which exit of the function was taken
    locks,          \* result of lc.SearchLocks
    lockSet,        \* map[string]locking.Lock built from locks
    searchCalls,    \* number of lc.SearchLocks calls made
    searchErr,      \* whether lc.SearchLocks returned an error
    lockConflicts,  \* []string accumulated over the read loop
    myLocks,        \* []string accumulated over the read loop
    left,           \* left of the last decodeRefs(line) call
    touched,        \* history: per evaluated line, the value of pointers ranged over
    enqueued,       \* history: the uploadLeftOrAll calls made, in order
    scanErr,        \* whether an uploadLeftOrAll call returned an error
    printedLocks,   \* history: the paths printed under "Pushing your locked files:"
    conflictReport, \* history: the paths printed under "Some files are locked"
    awaitResult,    \* "none" until ctx.Await() is called, then "ok" or "failed"
    decToks,        \* decoder harness: the tokens the input line was joined from
    decIn,          \* decoder harness: the input of decodeRefs
    decOut          \* decoder harness: the result of decodeRefs, <<>> before the call

envv  == <<args, stdin>>
lockv == <<locks, lockSet, searchCalls, searchErr>>
loopv == <<pos, left, touched, lockConflicts, myLocks, enqueued, scanErr>>
outv  == <<printedLocks, conflictReport, awaitResult>>
termv == <<pc, exitCode, exitCause>>
decv  == <<decToks, decIn, decOut>>
vars  == <<envv, lockv, loopv, outv, termv, decv>>

(***************************************************************************)
(* Bounds of the model.                                                    *)
(***************************************************************************)
MaxLines == 2
MaxPointers == 1
MaxLocks == 1
MaxTokens == 5

(***************************************************************************)
(* Small helpers.                                                          *)
(***************************************************************************)
SeqsUpTo(S, n) == UNION {[1..k -> S] : k \in 0..n}

\* strings.Repeat(c, n)
Repeat(c, n) == [i \in 1..n |-> c]

RECURSIVE Join(_, _)
Join(toks, sep) ==
    IF Len(toks) = 0 THEN <<>>
    ELSE IF Len(toks) = 1 THEN toks[1]
    ELSE toks[1] \o sep \o Join(Tail(toks), sep)

(***************************************************************************)
(* The Go string functions decodeRefs and the read loop use.               *)
(***************************************************************************)
IsSpace(c) == c \in {" ", "\t"}

\* strings.TrimSpace(s): s without its leading and trailing white space.
TrimSpace(s) ==
    LET kept == {i \in 1..Len(s) : ~IsSpace(s[i])}
    IN  IF kept = {} THEN <<>>
        ELSE SubSeq(s, CHOOSE i \in kept : \A j \in kept : i <= j,
                       CHOOSE i \in kept : \A j \in kept : j <= i)

\* strings.Split(s, " "): the substrings between the spaces of s, one more
\* than there are spaces.
Split(s) ==
    LET seps == {i \in 1..Len(s) : s[i] = " "}
        cuts == seps \cup {0, Len(s) + 1}
        StartOf(k) == CHOOSE c \in cuts \ {Len(s) + 1} :
                          Cardinality({d \in seps : d <= c}) = k - 1
        EndOf(c) == CHOOSE e \in cuts : e > c /\ \A d \in cuts : d > c => e <= d
    IN  [k \in 1..(Cardinality(seps) + 1) |->
            SubSeq(s, StartOf(k) + 1, EndOf(StartOf(k)) - 1)]

(***************************************************************************)
(* Program constants and the decoder.                                      *)
(***************************************************************************)
ShaLen == 40
prePushDeleteBranch == Repeat("0", ShaLen)

\* A mutant: the length test of left is off by one.
decodeRefsOffByOne(input) ==
    LET refs == Split(TrimSpace(input))
        l == IF Len(refs) > 2 THEN refs[2] ELSE <<>>
        r == IF Len(refs) > 3 THEN <<"^">> \o refs[4] ELSE <<>>
    IN  <<l, r>>

\* func decodeRefs(input string) (string, string)
decodeRefs(input) ==
    LET refs == Split(TrimSpace(input))
        l == IF Len(refs) > 1 THEN refs[2] ELSE <<>>
        r == IF Len(refs) > 3 THEN <<"^">> \o refs[4] ELSE <<>>
    IN  <<l, r>>

(***************************************************************************)
(* The environment: what the hook is started with and what its             *)
(* collaborators can answer.                                               *)
(***************************************************************************)
Remotes == {"origin"}
ArgLists == {<<>>, <<"origin">>, <<"bogus">>}

RefUpdateLine == <<"\t", "r", " ", "a", " ", "r", " ", "b", " ">>
DeleteLine == <<"r", " ">> \o prePushDeleteBranch \o <<" ", "r", " ", "b">>
BlankLine == <<" ", "\t">>
ShortLine == <<"r">>
StdinLines == {RefUpdateLine, DeleteLine, BlankLine, ShortLine}

CommitterName == "bob"
CommitterEmail == "bob@example.com"

ObjectNames == {"big.psd", "alice", "bob"}
LockPaths == {"big.psd"}
OwnerNames == {"alice", "bob"}
OwnerEmails == {"alice@example.com", "bob@example.com"}
LockRecords == [Path : LockPaths, Name : OwnerNames, Email : OwnerEmails]

\* git.ValidateRemote(name): nil for a remote the repository knows.
ValidateRemote(name) == name \in Remotes

\* The status Exit and ExitWithError end the process with.
ExitStatus == 2

(***************************************************************************)
(* Pieces of prePushCommand.                                               *)
(***************************************************************************)
\* lockSet := make(map...); for _, l := range locks { lockSet[l.Name] = l }
BuildLockSet(ls) ==
    [n \in {ls[i].Name : i \in DOMAIN ls} |->
        ls[CHOOSE i \in DOMAIN ls :
              /\ ls[i].Name = n
              /\ \A j \in DOMAIN ls : ls[j].Name = n => j <= i]]

\* A mutant: a conflict is recorded under the lock's path, as myLocks is.
RECURSIVE RangePointersLockPath(_, _, _, _, _)
RangePointersLockPath(ptrs, i, ls, mine, conflicts) ==
    IF i > Len(ptrs) THEN <<mine, conflicts>>
    ELSE IF ptrs[i] \in DOMAIN ls
         THEN IF ls[ptrs[i]].Name = CommitterName /\ ls[ptrs[i]].Email = CommitterEmail
              THEN RangePointersLockPath(ptrs, i + 1, ls,
                                         Append(mine, ls[ptrs[i]].Path), conflicts)
              ELSE RangePointersLockPath(ptrs, i + 1, ls, mine,
                                         Append(conflicts, ls[ptrs[i]].Path))
         ELSE RangePointersLockPath(ptrs, i + 1, ls, mine, conflicts)

\* One pass of "for _, p := range pointers" from index i on, over the
\* accumulators <<myLocks, lockConflicts>>.
RECURSIVE RangePointers(_, _, _, _, _)
RangePointers(ptrs, i, ls, mine, conflicts) ==
    IF i > Len(ptrs) THEN <<mine, conflicts>>
    ELSE IF ptrs[i] \in DOMAIN ls
         THEN IF ls[ptrs[i]].Name = CommitterName /\ ls[ptrs[i]].Email = CommitterEmail
              THEN RangePointers(ptrs, i + 1, ls, Append(mine, ls[ptrs[i]].Path), conflicts)
              ELSE RangePointers(ptrs, i + 1, ls, mine, Append(conflicts, ptrs[i]))
         ELSE RangePointers(ptrs, i + 1, ls, mine, conflicts)

\* The process ends with the given status.
Exits(code, cause) ==
    /\ pc' = "Exited"
    /\ exitCode' = code
    /\ exitCause' = cause

Init ==
    /\ args \in ArgLists
    /\ stdin \in SeqsUpTo(StdinLines, MaxLines)
    /\ pos = 0
    /\ pc = "Start"
    /\ exitCode = -1
    /\ exitCause = "none"
    /\ locks = <<>>
    /\ lockSet = <<>>
    /\ searchCalls = 0
    /\ searchErr = FALSE
    /\ lockConflicts = <<>>
    /\ myLocks = <<>>
    /\ left = <<>>
    /\ touched = <<>>
    /\ enqueued = <<>>
    /\ scanErr = FALSE
    /\ printedLocks = <<>>
    /\ conflictReport = <<>>
    /\ awaitResult = "none"
    /\ decToks = <<>>
    /\ decIn = <<>>
    /\ decOut = <<>>

\* if len(args) == 0 { Print(...); os.Exit(1) }
CheckArgs ==
    /\ pc = "Start"
    /\ IF Len(args) = 0
       THEN Exits(1, "Usage")
       ELSE /\ pc' = "GitVersion"
            /\ UNCHANGED <<exitCode, exitCause>>
    /\ UNCHANGED <<envv, lockv, loopv, outv, decv>>

\* requireGitVersion(): returns, or ends the process when git is too old.
RequireGitVersion ==
    /\ pc = "GitVersion"
    /\ \/ /\ pc' = "ValidateRemote"
          /\ UNCHANGED <<exitCode, exitCause>>
       \/ Exits(ExitStatus, "GitVersion")
    /\ UNCHANGED <<envv, lockv, loopv, outv, decv>>

\* A mutant: the result of git.ValidateRemote is not looked at.
CheckRemoteUnchecked ==
    /\ pc = "ValidateRemote"
    /\ pc' = "RemoteForPush"
    /\ UNCHANGED <<exitCode, exitCause>>
    /\ UNCHANGED <<envv, lockv, loopv, outv, decv>>

\* if err := git.ValidateRemote(args[0]); err != nil { Exit(...) }
CheckRemote ==
    /\ pc = "ValidateRemote"
    /\ IF ValidateRemote(args[1])
       THEN /\ pc' = "RemoteForPush"
            /\ UNCHANGED <<exitCode, exitCause>>
       ELSE Exits(ExitStatus, "InvalidRemote")
    /\ UNCHANGED <<envv, lockv, loopv, outv, decv>>

\* ctx := newUploadContext(...); gitscanner.RemoteForPush(ctx.Remote)
RemoteForPush ==
    /\ pc = "RemoteForPush"
    /\ \/ /\ pc' = "NewClient"
          /\ UNCHANGED <<exitCode, exitCause>>
       \/ Exits(ExitStatus, "RemoteForPush")
    /\ UNCHANGED <<envv, lockv, loopv, outv, decv>>

\* name, email := cfg.CurrentCommitter(); lc, err := locking.NewClient(cfg)
NewClient ==
    /\ pc = "NewClient"
    /\ \/ /\ pc' = "SearchLocks"
          /\ UNCHANGED <<exitCode, exitCause>>
       \/ Exits(ExitStatus, "NewClient")
    /\ UNCHANGED <<envv, lockv, loopv, outv, decv>>

\* A mutant: a failed lc.SearchLocks is taken for an empty list of locks.
SearchLocksErrorIgnored ==
    /\ pc = "SearchLocks"
    /\ searchCalls' = searchCalls + 1
    /\ \/ \E ls \in SeqsUpTo(LockRecords, MaxLocks) :
             /\ locks' = ls
             /\ lockSet' = BuildLockSet(ls)
             /\ searchErr' = FALSE
             /\ pc' = "Reading"
             /\ UNCHANGED <<exitCode, exitCause>>
       \/ /\ locks' = <<>>
          /\ lockSet' = <<>>
          /\ searchErr' = TRUE
          /\ pc' = "Reading"
          /\ UNCHANGED <<exitCode, exitCause>>
    /\ UNCHANGED <<envv, loopv, outv, decv>>

\* locks, err := lc.SearchLocks(...); if err != nil { Exit(...) };
\* lockSet built; lockConflicts and myLocks made empty.
SearchLocks ==
    /\ pc = "SearchLocks"
    /\ searchCalls' = searchCalls + 1
    /\ \/ \E ls \in SeqsUpTo(LockRecords, MaxLocks) :
             /\ locks' = ls
             /\ lockSet' = BuildLockSet(ls)
             /\ searchErr' = FALSE
             /\ pc' = "Reading"
             /\ UNCHANGED <<exitCode, exitCause>>
       \/ /\ searchErr' = TRUE
          /\ Exits(ExitStatus, "LockSearch")
          /\ UNCHANGED <<locks, lockSet>>
    /\ UNCHANGED <<envv, loopv, outv, decv>>

(***************************************************************************)
(* The read loop: for scanner.Scan() { ... }                               *)
(***************************************************************************)
\* line := strings.TrimSpace(scanner.Text()) of the line Scan returns next
TrimmedLines == [l \in StdinLines |-> TrimSpace(l)]
NextLine == TrimmedLines[stdin[pos + 1]]

\* decodeRefs(line) of that line; both tables are computed once for the
\* lines stdin can hold.
DecodedLines == [l \in StdinLines |-> decodeRefs(TrimmedLines[l])]
NextRefs == DecodedLines[stdin[pos + 1]]

\* A mutant: the test for the empty line is missing.
SkipBlankMissing ==
    /\ pc = "Reading"
    /\ pos < Len(stdin)
    /\ Len(NextLine) = 0
    /\ pos' = pos + 1
    /\ left' = NextRefs[1]
    /\ pc' = "Evaluating"
    /\ UNCHANGED <<touched, lockConflicts, myLocks, enqueued, scanErr>>
    /\ UNCHANGED <<envv, lockv, outv, exitCode, exitCause, decv>>

\* A mutant: the empty line ends the loop (break for continue).
SkipBlankBreaks ==
    /\ pc = "Reading"
    /\ pos < Len(stdin)
    /\ Len(NextLine) = 0
    /\ pos' = pos + 1
    /\ pc' = "Reporting"
    /\ UNCHANGED <<left, touched, lockConflicts, myLocks, enqueued, scanErr>>
    /\ UNCHANGED <<envv, lockv, outv, exitCode, exitCause, decv>>

\* A mutant: the empty line is looked at again and again.
SkipBlankStuck ==
    /\ pc = "Reading"
    /\ pos < Len(stdin)
    /\ Len(NextLine) = 0
    /\ pos' = pos
    /\ UNCHANGED <<left, touched, lockConflicts, myLocks, enqueued, scanErr>>
    /\ UNCHANGED <<envv, lockv, outv, termv, decv>>

\* if len(line) == 0 { continue }
SkipBlank ==
    /\ pc = "Reading"
    /\ pos < Len(stdin)
    /\ Len(NextLine) = 0
    /\ pos' = pos + 1
    /\ UNCHANGED <<left, touched, lockConflicts, myLocks, enqueued, scanErr>>
    /\ UNCHANGED <<envv, lockv, outv, termv, decv>>

\* A mutant: the test for the deleted branch is missing.
SkipDeleteMissing ==
    /\ pc = "Reading"
    /\ pos < Len(stdin)
    /\ Len(NextLine) > 0
    /\ NextRefs[1] = prePushDeleteBranch
    /\ pos' = pos + 1
    /\ left' = NextRefs[1]
    /\ pc' = "Evaluating"
    /\ UNCHANGED <<touched, lockConflicts, myLocks, enqueued, scanErr>>
    /\ UNCHANGED <<envv, lockv, outv, exitCode, exitCause, decv>>

\* left, _ := decodeRefs(line); if left == prePushDeleteBranch { continue }
SkipDelete ==
    /\ pc = "Reading"
    /\ pos < Len(stdin)
    /\ Len(NextLine) > 0
    /\ NextRefs[1] = prePushDeleteBranch
    /\ pos' = pos + 1
    /\ left' = NextRefs[1]
    /\ UNCHANGED <<touched, lockConflicts, myLocks, enqueued, scanErr>>
    /\ UNCHANGED <<envv, lockv, outv, termv, decv>>

\* left, _ := decodeRefs(line), left is not prePushDeleteBranch
ReadRef ==
    /\ pc = "Reading"
    /\ pos < Len(stdin)
    /\ Len(NextLine) > 0
    /\ NextRefs[1] # prePushDeleteBranch
    /\ pos' = pos + 1
    /\ left' = NextRefs[1]
    /\ pc' = "Evaluating"
    /\ UNCHANGED <<touched, lockConflicts, myLocks, enqueued, scanErr>>
    /\ UNCHANGED <<envv, lockv, outv, exitCode, exitCause, decv>>

\* A mutant: the locks are searched again for every ref update.
EvaluateRefreshes ==
    /\ pc = "Evaluating"
    /\ searchCalls' = searchCalls + 1
    /\ \E pointers \in SeqsUpTo(ObjectNames, MaxPointers) :
          LET r == RangePointers(pointers, 1, lockSet, myLocks, lockConflicts)
          IN  /\ myLocks' = r[1]
              /\ lockConflicts' = r[2]
              /\ touched' = Append(touched, [line |-> pos, pointers |-> pointers])
    /\ pc' = "Checking"
    /\ UNCHANGED <<pos, left, enqueued, scanErr>>
    /\ UNCHANGED <<envv, locks, lockSet, searchErr, outv, exitCode, exitCause, decv>>

\* for _, p := range pointers { ... }: pointers is whatever the scan of the
\* ref update holds, any sequence of at most MaxPointers objects.
Evaluate ==
    /\ pc = "Evaluating"
    /\ \E pointers \in SeqsUpTo(ObjectNames, MaxPointers) :
          LET r == RangePointers(pointers, 1, lockSet, myLocks, lockConflicts)
          IN  /\ myLocks' = r[1]
              /\ lockConflicts' = r[2]
              /\ touched' = Append(touched, [line |-> pos, pointers |-> pointers])
    /\ pc' = "Checking"
    /\ UNCHANGED <<pos, left, enqueued, scanErr>>
    /\ UNCHANGED <<envv, lockv, outv, exitCode, exitCause, decv>>

\* A mutant: the loop goes on after the report instead of os.Exit(1).
AbortContinues ==
    /\ pc = "Checking"
    /\ Len(lockConflicts) > 0
    /\ conflictReport' = lockConflicts
    /\ pc' = "Reading"
    /\ UNCHANGED <<exitCode, exitCause>>
    /\ UNCHANGED <<printedLocks, awaitResult>>
    /\ UNCHANGED <<envv, lockv, loopv, decv>>

\* A mutant: the hook returns instead of os.Exit(1).
AbortReturns ==
    /\ pc = "Checking"
    /\ Len(lockConflicts) > 0
    /\ conflictReport' = lockConflicts
    /\ Exits(0, "Conflict")
    /\ UNCHANGED <<printedLocks, awaitResult>>
    /\ UNCHANGED <<envv, lockv, loopv, decv>>

\* if len(lockConflicts) > 0 { Error(...); for ... { Error("* %s", file) }; os.Exit(1) }
Abort ==
    /\ pc = "Checking"
    /\ Len(lockConflicts) > 0
    /\ conflictReport' = lockConflicts
    /\ Exits(1, "Conflict")
    /\ UNCHANGED <<printedLocks, awaitResult>>
    /\ UNCHANGED <<envv, lockv, loopv, decv>>

\* A mutant: the error of uploadLeftOrAll is not looked at.
DispatchErrorIgnored ==
    /\ pc = "Checking"
    /\ Len(lockConflicts) = 0
    /\ enqueued' = Append(enqueued, [line |-> pos, args |-> <<left>>])
    /\ scanErr' \in BOOLEAN
    /\ pc' = "Reading"
    /\ UNCHANGED <<exitCode, exitCause>>
    /\ UNCHANGED <<pos, left, touched, lockConflicts, myLocks>>
    /\ UNCHANGED <<envv, lockv, outv, decv>>

\* A mutant: the committer's locked files are printed inside the loop.
DispatchPrintsLocks ==
    /\ pc = "Checking"
    /\ Len(lockConflicts) = 0
    /\ enqueued' = Append(enqueued, [line |-> pos, args |-> <<left>>])
    /\ printedLocks' = myLocks
    /\ \/ /\ scanErr' = FALSE
          /\ pc' = "Reading"
          /\ UNCHANGED <<exitCode, exitCause>>
       \/ /\ scanErr' = TRUE
          /\ Exits(ExitStatus, "Scan")
    /\ UNCHANGED <<pos, left, touched, lockConflicts, myLocks>>
    /\ UNCHANGED <<envv, lockv, conflictReport, awaitResult, decv>>

\* A mutant: the upload is dispatched whatever lockConflicts holds.
DispatchUnguarded ==
    /\ pc = "Checking"
    /\ enqueued' = Append(enqueued, [line |-> pos, args |-> <<left>>])
    /\ \/ /\ scanErr' = FALSE
          /\ pc' = "Reading"
          /\ UNCHANGED <<exitCode, exitCause>>
       \/ /\ scanErr' = TRUE
          /\ Exits(ExitStatus, "Scan")
    /\ UNCHANGED <<pos, left, touched, lockConflicts, myLocks>>
    /\ UNCHANGED <<envv, lockv, outv, decv>>

\* if err := uploadLeftOrAll(gitscanner, ctx, left); err != nil { ...; ExitWithError(err) }
Dispatch ==
    /\ pc = "Checking"
    /\ Len(lockConflicts) = 0
    /\ enqueued' = Append(enqueued, [line |-> pos, args |-> <<left>>])
    /\ \/ /\ scanErr' = FALSE
          /\ pc' = "Reading"
          /\ UNCHANGED <<exitCode, exitCause>>
       \/ /\ scanErr' = TRUE
          /\ Exits(ExitStatus, "Scan")
    /\ UNCHANGED <<pos, left, touched, lockConflicts, myLocks>>
    /\ UNCHANGED <<envv, lockv, outv, decv>>

\* scanner.Scan() returns false: the loop ends
EndOfInput ==
    /\ pc = "Reading"
    /\ pos = Len(stdin)
    /\ pc' = "Reporting"
    /\ UNCHANGED <<exitCode, exitCause>>
    /\ UNCHANGED <<envv, lockv, loopv, outv, decv>>

\* if len(myLocks) > 0 { Print("Pushing your locked files:"); ... }
PrintMyLocks ==
    /\ pc = "Reporting"
    /\ printedLocks' = myLocks
    /\ pc' = "Draining"
    /\ UNCHANGED <<conflictReport, awaitResult>>
    /\ UNCHANGED <<exitCode, exitCause>>
    /\ UNCHANGED <<envv, lockv, loopv, decv>>

\* ctx.Await(): waits for every transfer enqueued; when one failed it ends
\* the process with a non-zero status, else it returns.
ctxAwait(returns) ==
    IF returns
    THEN awaitResult' = "ok"
    ELSE /\ awaitResult' = "failed"
         /\ Exits(ExitStatus, "Failed")

\* ctx.Await() and the return of prePushCommand. A transfer can only fail
\* when one was enqueued.
Await ==
    /\ pc = "Draining"
    /\ \E returns \in BOOLEAN :
          /\ ~returns => Len(enqueued) > 0
          /\ ctxAwait(returns)
          /\ returns => Exits(0, "Done")
    /\ UNCHANGED <<printedLocks, conflictReport>>
    /\ UNCHANGED <<envv, lockv, loopv, decv>>

Next ==
    \/ CheckArgs
    \/ RequireGitVersion
    \/ CheckRemote
    \/ RemoteForPush
    \/ NewClient
    \/ SearchLocks
    \/ SkipBlank
    \/ SkipDelete
    \/ ReadRef
    \/ Evaluate
    \/ Abort
    \/ Dispatch
    \/ EndOfInput
    \/ PrintMyLocks
    \/ Await

Spec == Init /\ [][Next]_vars

(***************************************************************************)
(* The decoder on its own: decodeRefs applied to a line joined from        *)
(* tokens with single spaces.                                              *)
(***************************************************************************)
DecodeTokens ==
    {<<>>, <<"a">>, <<"0">>, <<"\t">>, <<"a", "b">>, prePushDeleteBranch}

InitDecode ==
    /\ args = <<"origin">>
    /\ stdin = <<>>
    /\ pos = 0
    /\ pc = "Start"
    /\ exitCode = -1
    /\ exitCause = "none"
    /\ locks = <<>>
    /\ lockSet = <<>>
    /\ searchCalls = 0
    /\ searchErr = FALSE
    /\ lockConflicts = <<>>
    /\ myLocks = <<>>
    /\ left = <<>>
    /\ touched = <<>>
    /\ enqueued = <<>>
    /\ scanErr = FALSE
    /\ printedLocks = <<>>
    /\ conflictReport = <<>>
    /\ awaitResult = "none"
    /\ decToks \in SeqsUpTo(DecodeTokens, MaxTokens)
    /\ decIn = Join(decToks, <<" ">>)
    /\ decOut = <<>>

\* left, right := decodeRefs(input)
Decode ==
    /\ decOut = <<>>
    /\ decOut' = decodeRefs(decIn)
    /\ UNCHANGED <<decToks, decIn>>
    /\ UNCHANGED <<envv, lockv, loopv, outv, termv>>

NextDecode == Decode

SpecDecode == InitDecode /\ [][NextDecode]_vars

(***************************************************************************)
(* Notions the properties below are stated with.                           *)
(***************************************************************************)
\* The lock is held by someone other than the current committer.
ForeignLock(l) == ~(l.Name = CommitterName /\ l.Email = CommitterEmail)

\* The lock index holds a lock on path p that another user owns.
IndexHoldsForeignPath(p) ==
    \E k \in DOMAIN lockSet : lockSet[k].Path = p /\ ForeignLock(lockSet[k])

\* The lock snapshot holds a lock on path p that another user owns.
LockedByOther(p) ==
    \E i \in DOMAIN locks : locks[i].Path = p /\ ForeignLock(locks[i])

\* The raw stdin line is a ref update (not blank), a deletion.
IsRefUpdate(raw) == Len(TrimSpace(raw)) > 0
IsDeletion(raw) ==
    LET toks == Split(TrimSpace(raw))
    IN  Len(toks) > 1 /\ toks[2] = prePushDeleteBranch

\* The evaluated ref update t touched a path the index holds for another user.
TouchesForeignLock(t) ==
    \E i \in DOMAIN t.pointers : IndexHoldsForeignPath(t.pointers[i])

\* No object an evaluated ref update touched is locked by another user.
NothingTouchedIsLockedByOther ==
    \A j \in DOMAIN touched :
        \A i \in DOMAIN touched[j].pointers :
            ~LockedByOther(touched[j].pointers[i])

\* The ref updates of the input that are not deletions.
NonDeletionUpdates ==
    {i \in DOMAIN stdin : IsRefUpdate(stdin[i]) /\ ~IsDeletion(stdin[i])}

(***************************************************************************)
(* Properties.                                                             *)
(***************************************************************************)

\* C1: when an evaluated ref update touched a path that the lock index holds
\* for someone other than the current committer, the hook exits non-zero and
\* ctx.Await() never completes successfully.  The code does not establish
\* this: the index is keyed by the owner's name, so the touched path is not
\* found in it.
C1_ForeignLockBlocksPush ==
    (pc = "Exited" /\ \E j \in DOMAIN touched : TouchesForeignLock(touched[j]))
        => (exitCode # 0 /\ awaitResult # "ok")

\* C2: in a run that ends in the conflict abort or after the drain, if no
\* touched object is locked by another user, the number of uploadLeftOrAll
\* calls equals the number of non-deletion ref-update lines of the input.
\* The code does not establish this: an object whose name equals the name of
\* a lock owner is reported as a conflict.
C2_OneEnqueuePerUpdate ==
    (/\ pc = "Exited"
     /\ exitCause \in {"Done", "Failed", "Conflict"}
     /\ NothingTouchedIsLockedByOther)
        => Len(enqueued) = Cardinality(NonDeletionUpdates)

\* C3: every uploadLeftOrAll call is made with lockConflicts empty, and for
\* a ref update whose conflict evaluation has already run.
C3_NoEnqueueAfterConflict ==
    [][enqueued' # enqueued =>
        /\ lockConflicts = <<>>
        /\ lockConflicts' = <<>>
        /\ Len(enqueued') = Len(enqueued) + 1
        /\ SubSeq(enqueued', 1, Len(enqueued)) = enqueued
        /\ \E j \in DOMAIN touched :
              touched[j].line = enqueued'[Len(enqueued')].line]_vars

C3_Witness ==
    /\ Len(enqueued) = 2
    /\ Len(myLocks) > 0
    /\ lockSet # <<>>

\* C4: reading a line whose local revision is the 40-zero sentinel changes
\* none of lockConflicts, myLocks, the evaluations made and the uploads
\* enqueued, and leaves the controller reading the next line.
C4_DeletionIsSkipped ==
    [][(pc = "Reading" /\ pos < Len(stdin) /\ IsDeletion(stdin[pos + 1])) =>
        /\ pc' = "Reading"
        /\ pos' = pos + 1
        /\ UNCHANGED <<lockConflicts, myLocks, touched, enqueued>>]_vars

C4_Witness ==
    /\ pc = "Reading"
    /\ pos > 0
    /\ IsDeletion(stdin[pos])
    /\ lockSet # <<>>

\* C5: when lc.SearchLocks returned an error the hook has ended with a
\* non-zero status, no line was read, evaluated or enqueued, and no lock
\* index was built.
C5_LockFetchErrorIsFatal ==
    searchErr =>
        /\ pc = "Exited"
        /\ exitCode # 0
        /\ pos = 0
        /\ touched = <<>>
        /\ enqueued = <<>>
        /\ awaitResult = "none"

C5_Witness ==
    /\ searchErr
    /\ pc = "Exited"
    /\ Len(stdin) > 0

\* C6: a run that exits 0 has called ctx.Await() and seen it succeed, and a
\* failed drain ends in a non-zero exit.
C6_ExitZeroOnlyAfterAwait ==
    /\ (pc = "Exited" /\ exitCode = 0) => awaitResult = "ok"
    /\ awaitResult = "failed" => (pc = "Exited" /\ exitCode # 0)

C6_Witness ==
    /\ pc = "Exited"
    /\ exitCode = 0
    /\ Len(enqueued) = 2

\* C7: every uploadLeftOrAll call for a line of at least four tokens is made
\* with token[1] as local and "^" followed by token[3] as remote exclusion.
\* The code does not establish this: it passes left only.
C7_EnqueueArguments ==
    \A i \in DOMAIN enqueued :
        LET toks == Split(TrimSpace(stdin[enqueued[i].line]))
        IN  Len(toks) >= 4 =>
                enqueued[i].args = <<toks[2], <<"^">> \o toks[4]>>

\* C8: with lockConflicts non-empty the only step is the exit with a
\* non-zero status: no line is read, nothing is evaluated or enqueued and
\* ctx.Await() is not called.
C8_AbortIsImmediate ==
    [][lockConflicts # <<>> =>
        /\ pc' = "Exited"
        /\ exitCode' > 0
        /\ awaitResult' = "none"
        /\ UNCHANGED <<pos, touched, enqueued>>]_vars

C8_Witness ==
    /\ pc = "Exited"
    /\ exitCause = "Conflict"
    /\ pos < Len(stdin)
    /\ IsRefUpdate(stdin[pos + 1])
    /\ ~IsDeletion(stdin[pos + 1])

\* C9: for a trimmed line joined from tokens with single spaces, decodeRefs
\* returns token[1] as local (empty with fewer than two tokens) and "^"
\* followed by token[3] as remote (empty with fewer than four tokens).
C9_DecodeRefsTokens ==
    (Len(decOut) = 2 /\ TrimSpace(decIn) = decIn) =>
        /\ decOut[1] = (IF Len(decToks) > 1 THEN decToks[2] ELSE <<>>)
        /\ decOut[2] = (IF Len(decToks) > 3 THEN <<"^">> \o decToks[4] ELSE <<>>)

C9_Witness ==
    /\ Len(decOut) = 2
    /\ TrimSpace(decIn) = decIn
    /\ Len(decToks) = 5
    /\ decToks[2] = prePushDeleteBranch
    /\ decToks[4] = <<"a", "b">>

\* C10: with no remote argument or an invalid remote name, the hook never
\* calls lc.SearchLocks, reads no line, calls neither uploadLeftOrAll nor
\* ctx.Await(), and its exit status is non-zero.
C10_UsageErrorNoWork ==
    (Len(args) = 0 \/ ~ValidateRemote(args[1])) =>
        /\ pc \in {"Start", "GitVersion", "ValidateRemote", "Exited"}
        /\ pc = "Exited" => exitCode # 0
        /\ searchCalls = 0
        /\ pos = 0
        /\ touched = <<>>
        /\ enqueued = <<>>
        /\ awaitResult = "none"

C10_Witness ==
    /\ pc = "Exited"
    /\ exitCause = "InvalidRemote"
    /\ Len(stdin) > 0

\* The tokens of the raw stdin line, as the claims count them.
TokensOf(raw) == Split(TrimSpace(raw))

\* C11: reading an empty or whitespace-only line decodes nothing (left
\* keeps its value), evaluates and enqueues nothing, changes neither
\* lockConflicts nor myLocks, and leaves the controller reading.
C11_BlankLineIsSkipped ==
    [][(pc = "Reading" /\ pos < Len(stdin) /\ ~IsRefUpdate(stdin[pos + 1])) =>
        /\ pc' = "Reading"
        /\ pos' = pos + 1
        /\ UNCHANGED <<left, lockConflicts, myLocks, touched, enqueued>>]_vars

C11_Witness ==
    /\ pc = "Reading"
    /\ pos = 2
    /\ ~IsRefUpdate(stdin[2])
    /\ Len(enqueued) = 1
    /\ left # <<>>
    /\ lockSet # <<>>

\* What the lock index would hold were it keyed by lock path: for every
\* locked path, the last lock of the snapshot on it.
PathIndex ==
    [q \in {locks[i].Path : i \in DOMAIN locks} |->
        locks[CHOOSE i \in DOMAIN locks :
                 /\ locks[i].Path = q
                 /\ \A j \in DOMAIN locks : locks[j].Path = q => j <= i]]

\* The objects touched by the evaluated ref updates, in the order the
\* evaluator ranged over them.
RECURSIVE TouchedObjects(_)
TouchedObjects(k) ==
    IF k = 0 THEN <<>> ELSE TouchedObjects(k - 1) \o touched[k].pointers

\* The touched objects whose path is locked by the committer, by another.
OwnedPaths ==
    SelectSeq(TouchedObjects(Len(touched)),
              LAMBDA o : o \in DOMAIN PathIndex /\ ~ForeignLock(PathIndex[o]))
ConflictingPaths ==
    SelectSeq(TouchedObjects(Len(touched)),
              LAMBDA o : o \in DOMAIN PathIndex /\ ForeignLock(PathIndex[o]))

\* C12: after every evaluation, myLocks holds the touched paths locked by
\* the current committer (name and e-mail equal) and lockConflicts the
\* touched paths locked by anyone else, and no other path.  The code does
\* not establish this: the index is keyed by the owner's name.
C12_ClassifiedByLockPath ==
    /\ myLocks = OwnedPaths
    /\ lockConflicts = ConflictingPaths

\* C13: a non-blank line of fewer than two tokens is neither evaluated nor
\* enqueued.  The code does not establish this: the empty left is not the
\* deletion sentinel, so the line is evaluated and uploadLeftOrAll is called
\* with an empty revision.
C13_MalformedLineIsNothingToDo ==
    \A i \in 1..pos :
        (IsRefUpdate(stdin[i]) /\ Len(TokensOf(stdin[i])) < 2) =>
            /\ \A j \in DOMAIN touched : touched[j].line # i
            /\ \A j \in DOMAIN enqueued : enqueued[j].line # i

\* The read loop has been entered: the locks were searched without error.
LoopStarted == searchCalls > 0 /\ ~searchErr

\* The terminal states of the controller.
Aborting ==
    /\ lockConflicts # <<>>
    /\ exitCode > 0
    /\ awaitResult = "none"
Done ==
    /\ lockConflicts = <<>>
    /\ pos = Len(stdin)
    /\ awaitResult = "ok"
    /\ exitCode = 0
Failed ==
    /\ lockConflicts = <<>>
    /\ pos = Len(stdin)
    /\ awaitResult = "failed"
    /\ exitCode > 0
ScanFailed ==
    /\ scanErr
    /\ lockConflicts = <<>>
    /\ exitCode > 0
    /\ awaitResult = "none"

\* C14, as claimed: once the read loop has started the process exits only
\* as Aborting, Done or Failed.  The code has one more exit inside the loop,
\* ExitWithError when uploadLeftOrAll returns an error.
C14_OnlyThreeExits ==
    (pc = "Exited" /\ LoopStarted) => (Aborting \/ Done \/ Failed)

\* C14, amended: once the read loop has started the process exits only as
\* Aborting, Done, Failed or, with a non-zero status and without a drain,
\* because uploadLeftOrAll returned an error; the only exit with status 0
\* is Done, with every line read.
C14_OnlyFourExits ==
    (pc = "Exited" /\ LoopStarted) => (Aborting \/ Done \/ Failed \/ ScanFailed)

C14_Witness ==
    /\ pc = "Exited"
    /\ LoopStarted
    /\ ScanFailed
    /\ pos < Len(stdin)

\* C15, as claimed: the committer's locked paths are printed only once
\* ctx.Await() has succeeded.  The code prints them before it calls
\* ctx.Await().
C15_PrintedAfterDrain ==
    printedLocks # <<>> => awaitResult = "ok"

\* C15, amended: the committer's locked paths are printed after the read
\* loop has ended without a conflict or scan error and before ctx.Await()
\* is called: never in a run that ends in Aborting or inside the loop, but
\* also in a run whose drain then fails.
C15_PrintedBeforeDrain ==
    /\ printedLocks # <<>> =>
          /\ pc \in {"Draining", "Exited"}
          /\ printedLocks = myLocks
          /\ pos = Len(stdin)
          /\ lockConflicts = <<>>
          /\ ~scanErr
    /\ awaitResult # "none" => printedLocks = myLocks

C15_Witness ==
    /\ pc = "Exited"
    /\ awaitResult = "failed"
    /\ printedLocks # <<>>

\* C16: lc.SearchLocks is called at most once, and exactly once before the
\* first conflict evaluation; from the start of the read loop on, the lock
\* snapshot and the index built from it never change.
C16_OneLockSnapshot ==
    [][/\ searchCalls' <= 1
       /\ touched' # touched => searchCalls = 1
       /\ touched' # touched => lockSet = BuildLockSet(locks)
       /\ LoopStarted => UNCHANGED <<locks, lockSet, searchCalls>>]_vars

C16_Witness ==
    /\ Len(touched) = 2
    /\ searchCalls = 1
    /\ lockSet # <<>>
    /\ myLocks # <<>>

\* The objects of the evaluated ref update t.
ObjectsOf(t) == {t.pointers[i] : i \in DOMAIN t.pointers}

\* C17: a conflict report comes with a non-zero exit and lists only objects
\* touched by the ref update evaluated last, the one of the line just read,
\* and no object of an earlier ref update.
C17_ReportListsCurrentUpdate ==
    conflictReport # <<>> =>
        /\ pc = "Exited"
        /\ exitCode > 0
        /\ touched # <<>>
        /\ touched[Len(touched)].line = pos
        /\ \A k \in DOMAIN conflictReport :
              /\ conflictReport[k] \in ObjectsOf(touched[Len(touched)])
              /\ \A j \in 1..(Len(touched) - 1) :
                    conflictReport[k] \notin ObjectsOf(touched[j])

C17_Witness ==
    /\ conflictReport # <<>>
    /\ pos = 2
    /\ Len(enqueued) = 1
    /\ touched[1].pointers # <<>>

\* C18: when uploadLeftOrAll returned an error the hook has ended with a
\* non-zero status at that line: the failed call is the last one, made for
\* the line read last, nothing was read or evaluated after it, the
\* committer's locks were not printed and ctx.Await() was not called.
C18_ScanErrorIsFatal ==
    scanErr =>
        /\ pc = "Exited"
        /\ exitCode > 0
        /\ enqueued[Len(enqueued)].line = pos
        /\ touched[Len(touched)].line = pos
        /\ printedLocks = <<>>
        /\ awaitResult = "none"

C18_Witness ==
    /\ scanErr
    /\ pc = "Exited"
    /\ pos = 1
    /\ Len(stdin) = 2
    /\ IsRefUpdate(stdin[2])
    /\ ~IsDeletion(stdin[2])

(***************************************************************************)
(* Termination.  prePushCommand is one sequential function: as long as     *)
(* every call it makes returns, it takes its next step.                    *)
(***************************************************************************)
FairSpec == Spec /\ WF_vars(Next)

\* The lines evaluated, and the lines enqueued, are strictly increasing.
InInputOrder(h) == \A i, j \in DOMAIN h : i < j => h[i].line < h[j].line

\* C19: the controller eventually exits, and on the way reads the lines one
\* by one in input order, evaluating and enqueuing each at most once and
\* only the line read last.
C19_Terminates ==
    /\ <>(pc = "Exited")
    /\ [][/\ pos' = pos \/ pos' = pos + 1
          /\ pos' <= Len(stdin)
          /\ touched' # touched => touched'[Len(touched')].line = pos
          /\ enqueued' # enqueued => enqueued'[Len(enqueued')].line = pos
          /\ InInputOrder(touched')
          /\ InInputOrder(enqueued')]_vars

C19_Witness ==
    /\ pc = "Exited"
    /\ pos = 2
    /\ Len(touched) = 2
    /\ Len(enqueued) = 2
    /\ touched[2].pointers # <<>>

====
